---- MODULE Spec2Model ----
(***************************************************************************)
(* Session lifecycle of the Delphi language-server VS Code extension       *)
(* (vscode-extension/src/extension.ts): activate() reads the configured    *)
(* server path, builds the server and client options, constructs a         *)
(* LanguageClient (the Session), starts it and registers it in the         *)
(* extension context; deactivate() stops the client held by the            *)
(* module-level binding.  The LanguageClient itself is a dependency        *)
(* (vscode-languageclient); its state machine is modelled after the        *)
(* Session states of the specification (Unstarted, Starting, Running,      *)
(* Stopping, Stopped).                                                      *)
(***************************************************************************)
EXTENDS Naturals, Sequences, FiniteSets

\* ---------------------------------------------------------------- bounds
MaxActivate == 2
MaxDeactivate == 2

\* ------------------------------------------------------- host environment
\* Values the setting delphi.languageServer.path can have: absent, the
\* empty string (the declared default), or a path.
Absent == [present |-> FALSE, value |-> ""]
Str(v) == [present |-> TRUE, value |-> v]
Paths == {"srvA", "srvB"}
ConfigValues == {Absent, Str("")} \cup {Str(p) : p \in Paths}

Any == "*"
Schemes == {"file", "untitled"}
Languages == {"delphi", "plaintext"}
Documents == [scheme : Schemes, language : Languages]
Extensions == {"pas", "txt"}

VARIABLES
    config,         \* current value of delphi.languageServer.path
    client,         \* module-level binding: 0 = undefined, else a session id
    sessions,       \* the LanguageClient instances constructed so far
    subscriptions,  \* context.subscriptions: session ids, in push order
    ctxDisposed,    \* the host has disposed the extension context
    notifications,  \* error messages shown so far
    watchers,       \* file system watchers created so far
    activations,    \* activate() calls so far
    deactivations,  \* deactivate() calls so far
    lastActivate,   \* what the latest activate() call saw and did
    lastDeactivate, \* what the latest deactivate() call saw and returned
    lastEvent       \* the latest editor event and the sessions it reached

vars == <<config, client, sessions, subscriptions, ctxDisposed,
          notifications, watchers, activations, deactivations,
          lastActivate, lastDeactivate, lastEvent>>

Range(s) == {s[i] : i \in DOMAIN s}

\* ------------------------------------------------------------ the Session
\* new LanguageClient(id, name, serverOptions, clientOptions)
NewLanguageClient(so, co) ==
    [serverOptions |-> so, clientOptions |-> co,
     state |-> "Unstarted", onStop |-> "none", transport |-> "none",
     starts |-> 0]

\* client.start(): begins the start operation and returns at once.
Start(sess) ==
    IF sess.state = "Unstarted"
    THEN [sess EXCEPT !.state = "Starting", !.starts = @ + 1]
    ELSE sess

Stopping(sess) == [sess EXCEPT !.state = "Stopping", !.onStop = "pending"]

\* client.stop(): what the call does to the session and the value it
\* returns: "onStop" is the session's stop promise, "resolved" an already
\* completed promise, "rejected" a fault.  Stopping a session whose start
\* has not settled leaves the transport in an undefined state: the call
\* either faults and leaves the session starting, or (torn) tears it down.
Stop(sess, torn) ==
    CASE sess.state \in {"Unstarted", "Stopped"} ->
            [next |-> sess, result |-> "resolved"]
      [] sess.state = "Stopping" ->
            [next |-> sess, result |-> "onStop"]
      [] sess.state = "Running" ->
            [next |-> Stopping(sess), result |-> "onStop"]
      [] sess.state = "Starting" ->
            IF torn THEN [next |-> Stopping(sess), result |-> "onStop"]
                    ELSE [next |-> sess, result |-> "rejected"]
      [] OTHER ->
            [next |-> sess, result |-> "rejected"]

\* ------------------------------------------------------------ activate()
\* !serverPath : undefined and '' are both falsy.
FalsyUndefinedOnly(serverPath) == ~serverPath.present

Falsy(serverPath) == ~serverPath.present \/ serverPath.value = ""

serverOptionsDebugIpc(serverPath) ==
    [run   |-> [command |-> serverPath.value, args |-> <<"--lsp">>,
                transport |-> "stdio"],
     debug |-> [command |-> serverPath.value, args |-> <<>>,
                transport |-> "ipc"]]

serverOptionsNoLspFlag(serverPath) ==
    [run   |-> [command |-> serverPath.value, args |-> <<>>,
                transport |-> "stdio"],
     debug |-> [command |-> serverPath.value, args |-> <<>>,
                transport |-> "stdio"]]

serverOptions(serverPath) ==
    [run   |-> [command |-> serverPath.value, args |-> <<"--lsp">>,
                transport |-> "stdio"],
     debug |-> [command |-> serverPath.value, args |-> <<>>,
                transport |-> "stdio"]]

clientOptionsLanguageOnly ==
    [documentSelector |-> <<[scheme |-> Any, language |-> "delphi"]>>,
     fileEvents       |-> {"pas", "dpr", "dfm"}]

clientOptions ==
    [documentSelector |-> <<[scheme |-> "file", language |-> "delphi"]>>,
     fileEvents       |-> {"pas", "dpr", "dfm"}]

NoCall == [serverPath |-> Absent, shown |-> 0, session |-> 0, prev |-> 0,
           stateAt |-> "none", result |-> "none", after |-> 0]

\* config.get<string>('languageServer.path'): read at every activate() call.
GetServerPathCached ==
    IF activations > 0 /\ lastActivate.session # 0
    THEN lastActivate.serverPath
    ELSE config

GetServerPath == config

\* new LanguageClient(...) followed by client.start(): the Session as
\* activate() leaves it.  The start is not awaited.
StartedClientNotStarted(path) ==
    NewLanguageClient(serverOptions(path), clientOptions)

StartedClientAwaited(path) ==
    [Start(NewLanguageClient(serverOptions(path), clientOptions))
        EXCEPT !.state = "Running", !.transport = "open"]

StartedClient(path) ==
    Start(NewLanguageClient(serverOptions(path), clientOptions))

Init ==
    /\ config \in ConfigValues
    /\ client = 0
    /\ sessions = <<>>
    /\ subscriptions = <<>>
    /\ ctxDisposed = FALSE
    /\ notifications = 0
    /\ watchers = 0
    /\ activations = 0
    /\ deactivations = 0
    /\ lastActivate = NoCall
    /\ lastDeactivate = NoCall
    /\ lastEvent = [kind |-> "none", doc |-> [scheme |-> "", language |-> ""],
                    ext |-> "", to |-> {}]

\* export function activate(context)
activate ==
    /\ ~ctxDisposed
    /\ activations < MaxActivate
    /\ activations' = activations + 1
    /\ LET serverPath == GetServerPath IN
       IF Falsy(serverPath)
       THEN /\ notifications' = notifications + 1
            /\ lastActivate' = [NoCall EXCEPT !.serverPath = serverPath,
                                   !.shown = 1, !.prev = client,
                                   !.result = "undefined",
                                   !.after = deactivations]
            /\ UNCHANGED <<client, sessions, subscriptions, watchers>>
       ELSE LET id == Len(sessions) + 1
            IN /\ watchers' = watchers + 1
               /\ client' = id
               /\ sessions' = Append(sessions, StartedClient(serverPath))
               /\ subscriptions' = Append(subscriptions, id)
               /\ lastActivate' = [NoCall EXCEPT !.serverPath = serverPath,
                                      !.session = id, !.prev = client,
                                      !.result = "undefined",
                                      !.after = deactivations]
               /\ UNCHANGED notifications
    /\ UNCHANGED <<config, ctxDisposed, deactivations, lastDeactivate,
                   lastEvent>>

\* What deactivate() does for binding c over the sessions ss: the sessions
\* afterwards and the value it returns ("undefined", or what stop() returned).
DeactivateNoReturn(c, ss, torn) ==
    IF c = 0
    THEN [sessions |-> ss, result |-> "undefined"]
    ELSE [sessions |-> [ss EXCEPT ![c] = Stop(ss[c], torn).next],
          result |-> "undefined"]

DeactivateNoGuard(c, ss, torn) ==
    IF c = 0
    THEN [sessions |-> ss, result |-> "rejected"]
    ELSE [sessions |-> [ss EXCEPT ![c] = Stop(ss[c], torn).next],
          result |-> Stop(ss[c], torn).result]

DeactivateStrict(c, ss, torn) ==
    IF c = 0
    THEN [sessions |-> ss, result |-> "undefined"]
    ELSE IF ss[c].state # "Running"
    THEN [sessions |-> ss, result |-> "rejected"]
    ELSE [sessions |-> [ss EXCEPT ![c] = Stop(ss[c], torn).next],
          result |-> Stop(ss[c], torn).result]

DeactivateAll(c, ss, torn) ==
    IF c = 0
    THEN [sessions |-> ss, result |-> "undefined"]
    ELSE [sessions |-> [i \in DOMAIN ss |-> Stop(ss[i], torn).next],
          result |-> Stop(ss[c], torn).result]

Deactivate(c, ss, torn) ==
    IF c = 0
    THEN [sessions |-> ss, result |-> "undefined"]
    ELSE [sessions |-> [ss EXCEPT ![c] = Stop(ss[c], torn).next],
          result |-> Stop(ss[c], torn).result]

\* export function deactivate()
deactivate ==
    /\ deactivations < MaxDeactivate
    /\ deactivations' = deactivations + 1
    /\ \E torn \in BOOLEAN :
          LET d == Deactivate(client, sessions, torn) IN
          /\ sessions' = d.sessions
          /\ lastDeactivate' =
                [NoCall EXCEPT !.session = client,
                    !.stateAt = IF client = 0 THEN "none"
                                ELSE sessions[client].state,
                    !.result = d.result,
                    !.after = activations]
    /\ UNCHANGED <<config, client, subscriptions, ctxDisposed, notifications,
                   watchers, activations, lastActivate, lastEvent>>

\* The host disposes the extension context: every entry of
\* context.subscriptions is disposed, and disposing a client stops it.
DisposeContext ==
    /\ ~ctxDisposed
    /\ ctxDisposed' = TRUE
    /\ \E torn \in [DOMAIN sessions -> BOOLEAN] :
          sessions' = [i \in DOMAIN sessions |->
              IF i \in Range(subscriptions)
              THEN Stop(sessions[i], torn[i]).next
              ELSE sessions[i]]
    /\ UNCHANGED <<config, client, subscriptions, notifications, watchers,
                   activations, deactivations, lastActivate, lastDeactivate,
                   lastEvent>>

\* The start operation of session s settles: the server answered the
\* handshake (Running) or could not be launched (StartFailed).
StartSettles(s) ==
    /\ sessions[s].state = "Starting"
    /\ \/ sessions' = [sessions EXCEPT ![s].state = "Running",
                                       ![s].transport = "open"]
       \/ sessions' = [sessions EXCEPT ![s].state = "StartFailed"]
    /\ UNCHANGED <<config, client, subscriptions, ctxDisposed, notifications,
                   watchers, activations, deactivations, lastActivate,
                   lastDeactivate, lastEvent>>

\* The stop operation of session s completes: the process is terminated,
\* the transport released and the stop promise resolved.
StopSettles(s) ==
    /\ sessions[s].state = "Stopping"
    /\ sessions' = [sessions EXCEPT ![s].state = "Stopped",
                                    ![s].onStop = "resolved",
                                    ![s].transport = "released"]
    /\ UNCHANGED <<config, client, subscriptions, ctxDisposed, notifications,
                   watchers, activations, deactivations, lastActivate,
                   lastDeactivate, lastEvent>>

\* The user edits the setting.
ConfigChange(v) ==
    /\ v # config
    /\ config' = v
    /\ UNCHANGED <<client, sessions, subscriptions, ctxDisposed,
                   notifications, watchers, activations, deactivations,
                   lastActivate, lastDeactivate, lastEvent>>

\* A document filter accepts a document when each field it names agrees.
FilterMatches(f, d) ==
    /\ f.scheme = Any \/ f.scheme = d.scheme
    /\ f.language = Any \/ f.language = d.language

Selects(selector, d) == \E i \in DOMAIN selector : FilterMatches(selector[i], d)

\* Editor events reach the sessions that are running.
Forwarding == {s \in DOMAIN sessions : sessions[s].state = "Running"}

\* A document is opened in the editor: it is synchronized with every
\* running session whose document selector accepts it.
OpenDocument(d) ==
    /\ lastEvent' = [kind |-> "document", doc |-> d, ext |-> "",
                     to |-> {s \in Forwarding :
                        Selects(sessions[s].clientOptions.documentSelector, d)}]
    /\ UNCHANGED <<config, client, sessions, subscriptions, ctxDisposed,
                   notifications, watchers, activations, deactivations,
                   lastActivate, lastDeactivate>>

\* A file with extension e changes on disk: the watcher of every running
\* session whose glob covers e reports it.
FileEvent(e) ==
    /\ lastEvent' = [kind |-> "file", doc |-> [scheme |-> "", language |-> ""],
                     ext |-> e,
                     to |-> {s \in Forwarding :
                        e \in sessions[s].clientOptions.fileEvents}]
    /\ UNCHANGED <<config, client, sessions, subscriptions, ctxDisposed,
                   notifications, watchers, activations, deactivations,
                   lastActivate, lastDeactivate>>

Next ==
    \/ activate
    \/ deactivate
    \/ DisposeContext
    \/ \E s \in DOMAIN sessions : StartSettles(s)
    \/ \E s \in DOMAIN sessions : StopSettles(s)
    \/ \E v \in ConfigValues : ConfigChange(v)
    \/ \E d \in Documents : OpenDocument(d)
    \/ \E e \in Extensions : FileEvent(e)

Spec == Init /\ [][Next]_vars

\* ------------------------------------------------------------ properties
ActivateStep == activations' = activations + 1
Missing(v) == v = Absent \/ v = Str("")
DeactivateStep == deactivations' = deactivations + 1
TornDown(sess) == sess.state \in {"Stopped", "StartFailed"}
InFlight(sess) == sess.state \in {"Starting", "Stopping"}
Quiescent == \A s \in DOMAIN sessions : ~InFlight(sessions[s])

\* C1: an activate() call that reads an empty or absent server path
\* constructs no Session (so no process is ever launched for it), leaves the
\* binding alone and shows exactly one error notification.
C1_MissingConfigNoSession ==
    [][(ActivateStep /\ Missing(config)) =>
          /\ sessions' = sessions
          /\ client' = client
          /\ notifications' = notifications + 1
          /\ lastActivate'.session = 0]_vars

C1_Witness ==
    /\ activations = 1
    /\ Missing(lastActivate.serverPath)
    /\ notifications = 1
    /\ sessions = <<>>

\* C2: deactivate() never calls stop on a Session whose start operation has
\* not settled (a Session that is still Starting).
C2_NoStopWhileStarting ==
    deactivations > 0 => lastDeactivate.stateAt # "Starting"

\* C3: as long as deactivate() has not been called, at most one Session has
\* been constructed and an activate() that found the binding set has left
\* it referring to the same Session.
C3_SingleSession ==
    deactivations = 0 =>
        /\ Len(sessions) <= 1
        /\ (activations > 0 /\ lastActivate.prev # 0) =>
              client = lastActivate.prev

\* C4: after exactly one deactivate() that found the Session Running, the
\* Session is Stopping or Stopped, the value returned is the Session's stop
\* promise, that promise is resolved only when the Session is Stopped, and a
\* Stopped Session has released its transport.
C4_DeactivateStopsRunning ==
    (deactivations = 1 /\ lastDeactivate.stateAt = "Running") =>
        LET sess == sessions[lastDeactivate.session] IN
        /\ sess.state \in {"Stopping", "Stopped"}
        /\ lastDeactivate.result = "onStop"
        /\ sess.onStop = "resolved" <=> sess.state = "Stopped"
        /\ sess.state = "Stopped" => sess.transport = "released"

C4_Witness ==
    /\ deactivations = 1
    /\ lastDeactivate.stateAt = "Running"
    /\ sessions[lastDeactivate.session].state = "Stopped"
    /\ sessions[lastDeactivate.session].onStop = "resolved"

\* C5: a deactivate() that finds the bound Session already Stopping or
\* Stopped changes no Session and returns without a fault.
C5_SecondDeactivateNoOp ==
    [][(DeactivateStep /\ client # 0
            /\ sessions[client].state \in {"Stopping", "Stopped"}) =>
          /\ sessions' = sessions
          /\ lastDeactivate'.result \in {"onStop", "resolved"}]_vars

C5_Witness ==
    /\ deactivations = 2
    /\ lastDeactivate.stateAt \in {"Stopping", "Stopped"}
    /\ lastDeactivate.result \in {"onStop", "resolved"}

\* C6: a deactivate() called while no Session has been constructed returns
\* undefined at once, raises no fault and stops nothing; the binding is
\* unset exactly when no Session has been constructed.
C6_DeactivateWithoutSession ==
    /\ [](client = 0 <=> sessions = <<>>)
    /\ [][(DeactivateStep /\ sessions = <<>>) =>
            /\ lastDeactivate'.result = "undefined"
            /\ lastDeactivate'.session = 0
            /\ sessions' = sessions]_vars

C6_Witness ==
    /\ deactivations > 0
    /\ lastDeactivate.session = 0
    /\ lastDeactivate.result = "undefined"
    /\ notifications > 0

\* C7: once both teardown paths have run (deactivate() was called and the
\* host disposed the context) and no start or stop is in flight, every
\* Session has been torn down (a Session whose launch failed counts as torn
\* down).
C7_TornDownByBothPaths ==
    (ctxDisposed /\ deactivations > 0 /\ Quiescent) =>
        \A s \in DOMAIN sessions : TornDown(sessions[s])

\* C8: every constructed Session is in the context's disposal list, and once
\* the host has disposed the context and no start or stop is in flight every
\* registered Session has been torn down, whether or not deactivate() ran.
C8_DisposalTearsDown ==
    /\ Range(subscriptions) = DOMAIN sessions
    /\ (ctxDisposed /\ Quiescent) =>
          \A s \in Range(subscriptions) : TornDown(sessions[s])

\* C9: the run and the debug variants of every constructed Session launch
\* the path the constructing activate() read, over stdio.
C9_BothVariantsUsePath ==
    /\ \A s \in DOMAIN sessions :
          LET so == sessions[s].serverOptions IN
          /\ so.run.command = so.debug.command
          /\ so.run.command \in Paths
          /\ so.run.transport = "stdio"
          /\ so.debug.transport = "stdio"
    /\ (activations > 0 /\ lastActivate.session # 0) =>
          LET so == sessions[lastActivate.session].serverOptions IN
          /\ so.run.command = lastActivate.serverPath.value
          /\ so.debug.command = lastActivate.serverPath.value

C9_Witness ==
    /\ activations = 2
    /\ Len(sessions) = 2
    /\ sessions[1].serverOptions.run.command
          # sessions[2].serverOptions.debug.command

\* C10: the document selector of every Session accepts (file, delphi) and no
\* other (scheme, language) pair, and an opened document is synchronized
\* with the running Sessions exactly when it is that pair.
IsTarget(d) == d.scheme = "file" /\ d.language = "delphi"

C10_SelectorAcceptsOnlyFileDelphi ==
    /\ [](\A s \in DOMAIN sessions : \A d \in Documents :
            Selects(sessions[s].clientOptions.documentSelector, d)
                <=> IsTarget(d))
    /\ [][(lastEvent' # lastEvent /\ lastEvent'.kind = "document") =>
            lastEvent'.to = IF IsTarget(lastEvent'.doc) THEN Forwarding
                            ELSE {}]_vars

C10_Witness ==
    /\ lastEvent.kind = "document"
    /\ lastEvent.doc = [scheme |-> "untitled", language |-> "delphi"]
    /\ lastEvent.to = {}
    /\ Forwarding # {}

\* C11: an activate() that read a missing path returns normally, and while
\* it is the only activate() call nothing the host or the user does later
\* (setting edits, document and file events, deactivate(), disposal)
\* constructs or starts a Session; Sessions are constructed by activate()
\* steps only.
C11_MissingConfigStaysUnstarted ==
    /\ []((activations = 1 /\ Missing(lastActivate.serverPath)) =>
            /\ lastActivate.result = "undefined"
            /\ sessions = <<>>
            /\ client = 0
            /\ subscriptions = <<>>
            /\ lastEvent.to = {})
    /\ [][~ActivateStep => Len(sessions') = Len(sessions)]_vars

C11_Witness ==
    /\ activations = 1
    /\ Missing(lastActivate.serverPath)
    /\ ~Missing(config)
    /\ deactivations > 0
    /\ lastEvent.kind = "document"
    /\ IsTarget(lastEvent.doc)
    /\ sessions = <<>>

\* C12: the start operation of every constructed Session has been initiated
\* exactly once, and a Session whose start failed is never started again nor
\* changed in any way; no step other than activate() adds a Session.
C12_StartInitiatedOnce ==
    /\ [](\A s \in DOMAIN sessions : sessions[s].starts = 1)
    /\ [][\A s \in DOMAIN sessions :
            sessions[s].state = "StartFailed" =>
                /\ sessions'[s] = sessions[s]
                /\ (~ActivateStep => Len(sessions') = Len(sessions))]_vars

C12_Witness ==
    /\ Len(sessions) = 1
    /\ sessions[1].state = "StartFailed"
    /\ sessions[1].starts = 1
    /\ deactivations > 0
    /\ lastDeactivate.stateAt = "StartFailed"
    /\ ctxDisposed

\* C13: an activate() that read a non-empty path returns with the new
\* Session Starting, its start not yet settled and its transport not yet
\* open; the Session becomes Running or fails in a later step.
C13_ActivateReturnsWhileStarting ==
    [][(ActivateStep /\ ~Missing(config)) =>
          /\ Len(sessions') = Len(sessions) + 1
          /\ sessions'[Len(sessions')].state = "Starting"
          /\ sessions'[Len(sessions')].transport = "none"
          /\ lastActivate'.result = "undefined"]_vars

C13_Witness ==
    /\ activations = 1
    /\ lastActivate.session = 1
    /\ sessions[1].state = "Starting"

\* C14: no Session is ever observable Unstarted: every Session an editor
\* event can reach has had its start initiated, and no event reaches
\* anything while no Session has been constructed.
C14_StartBeforeEvents ==
    /\ \A s \in DOMAIN sessions :
          sessions[s].state # "Unstarted" /\ sessions[s].starts >= 1
    /\ lastEvent.to \subseteq DOMAIN sessions
    /\ sessions = <<>> => lastEvent.to = {}

C14_Witness ==
    /\ lastEvent.kind = "file"
    /\ lastEvent.ext = "pas"
    /\ lastEvent.to = {1}
    /\ sessions[1].starts = 1

\* C15: every activate() uses the value the setting has at that call, and
\* no step changes the server options of a Session already constructed.
C15_PathReadPerActivation ==
    /\ [][(ActivateStep /\ ~Missing(config)) =>
            /\ Len(sessions') = Len(sessions) + 1
            /\ sessions'[Len(sessions')].serverOptions.run.command
                  = config.value
            /\ lastActivate'.serverPath = config]_vars
    /\ [][\A s \in DOMAIN sessions :
            sessions'[s].serverOptions = sessions[s].serverOptions]_vars

C15_Witness ==
    /\ activations = 2
    /\ Len(sessions) = 2
    /\ sessions[1].serverOptions.run.command = "srvA"
    /\ sessions[2].serverOptions.run.command = "srvB"
    /\ config = Absent

\* C16: the run variant of every Session launches the executable with the
\* single argument --lsp, the debug variant launches the same executable
\* with no arguments, and both use stdio.
C16_RunHasLspFlag ==
    \A s \in DOMAIN sessions :
        LET so == sessions[s].serverOptions IN
        /\ so.run.args = <<"--lsp">>
        /\ so.debug.args = <<>>
        /\ so.debug.command = so.run.command
        /\ so.debug.transport = so.run.transport
        /\ so.run.transport = "stdio"

C16_Witness ==
    /\ Len(sessions) = 1
    /\ sessions[1].state = "Running"
    /\ sessions[1].serverOptions.run.args = <<"--lsp">>

\* C17: once a Session has been constructed the binding refers to the most
\* recently constructed one, no step other than activate() changes the
\* binding, and a deactivate() stops that Session and touches no other.
C17_BindingIsLatestSession ==
    /\ [](client = Len(sessions))
    /\ [][~ActivateStep => client' = client]_vars
    /\ [][DeactivateStep =>
            /\ lastDeactivate'.session = Len(sessions)
            /\ \A s \in DOMAIN sessions :
                  s # Len(sessions) => sessions'[s] = sessions[s]
            /\ (client # 0 /\ sessions[client].state = "Running") =>
                  sessions'[client].state = "Stopping"]_vars

C17_Witness ==
    /\ Len(sessions) = 2
    /\ client = 2
    /\ deactivations = 2
    /\ lastDeactivate.session = 2
    /\ lastDeactivate.stateAt = "Stopped"
    /\ sessions[1].state = "Running"

\* C18: an activate() that read a missing path leaves the binding, the
\* disposal list and the watchers as they were, and a deactivate() that
\* follows it stops the Session an earlier activate() had bound.
C18_MissingConfigFrame ==
    /\ [][(ActivateStep /\ Missing(config)) =>
            /\ client' = client
            /\ subscriptions' = subscriptions
            /\ watchers' = watchers]_vars
    /\ [][(DeactivateStep /\ activations > 0
              /\ Missing(lastActivate.serverPath) /\ lastActivate.prev # 0) =>
            /\ lastDeactivate'.session = lastActivate.prev
            /\ sessions[lastActivate.prev].state = "Running" =>
                  sessions'[lastActivate.prev].state = "Stopping"]_vars

C18_Witness ==
    /\ activations = 2
    /\ Missing(lastActivate.serverPath)
    /\ lastActivate.prev = 1
    /\ lastActivate.after = 0
    /\ deactivations = 1
    /\ lastDeactivate.after = 2
    /\ lastDeactivate.stateAt = "Running"
    /\ sessions[1].state = "Stopped"

\* C19: every activate() that read a non-empty path adds exactly one
\* Session, one initiated start, one file watcher and one disposal entry,
\* every other step adds none, and the four totals are always equal.
RECURSIVE SumStarts(_)
SumStarts(ss) ==
    IF ss = <<>> THEN 0 ELSE ss[1].starts + SumStarts(Tail(ss))

C19_CountsAgree ==
    /\ [](/\ Len(sessions) = SumStarts(sessions)
          /\ Len(sessions) = watchers
          /\ Len(sessions) = Len(subscriptions))
    /\ [][LET k == IF ActivateStep /\ ~Missing(config) THEN 1 ELSE 0 IN
          /\ Len(sessions') = Len(sessions) + k
          /\ SumStarts(sessions') = SumStarts(sessions) + k
          /\ watchers' = watchers + k
          /\ Len(subscriptions') = Len(subscriptions) + k]_vars

C19_Witness ==
    /\ activations = 2
    /\ notifications = 1
    /\ Len(sessions) = 1
    /\ watchers = 1
    /\ Len(subscriptions) = 1
    /\ SumStarts(sessions) = 1

====
